---- MODULE Spec2Model ----
(***************************************************************************)
(* Configuration store and photo resolver of ha-screensaver (src/main.rs). *)
(*                                                                         *)
(* The model covers the process life cycle (main: load-or-default, serve), *)
(* the three request handlers get_config, update_config and get_photos,    *)
(* the std::sync::Mutex around the Config (with lock poisoning), the       *)
(* config.json file and the directories the photo scan reads.              *)
(*                                                                         *)
(* Handlers run on several worker threads, so every handler is a sequence  *)
(* of steps, one per statement, and steps of different requests interleave.*)
(* A panic (an unwrap() on Err) unwinds the handler: the request gets no   *)
(* response, a MutexGuard dropped while unwinding poisons the mutex.       *)
(***************************************************************************)
EXTENDS Integers, Sequences, FiniteSets, TLC

(* ------------------------------ bounds --------------------------------- *)

\* number of request slots (requests that can be in flight together)
NumProcs == 2

\* number of distinct valid Configuration values clients submit
NumConfigs == 2

Procs == 1..NumProcs

(* --------------------------- Configuration ----------------------------- *)

\* An integer hi * 2^16 + lo, 0 <= lo < 2^16, written in two halves: the
\* values of a u32 reach 2^32 - 1, which the model checker's integers do not.
Number(hi, lo) == [hi |-> hi, lo |-> lo]

\* the values of idle_timeout_seconds: u32
IsU32(n) == n.hi \in 0..65535 /\ n.lo \in 0..65535

U32Max == Number(65535, 65535)

\* struct Config
Config(u, f, t) ==
    [home_assistant_url |-> u, photos_folder |-> f, idle_timeout_seconds |-> t]

\* a default that differs from the documented one in the idle timeout
DefaultConfigOther == Config("http://homeassistant.local:8123", "./photos", Number(0, 30))

\* the hard-coded Config of main's else branch
DefaultConfig == Config("http://homeassistant.local:8123", "./photos", Number(0, 60))

\* placeholder for "no Config" (process not running, no request body)
Blank == Config("", "", Number(0, 0))

\* the valid values clients submit: pairwise different in every field
InputUrls == <<"http://ha-1:8123", "http://ha-2:8123", "http://ha-3:8123", "http://ha-4:8123">>
InputFolders == <<"/srv/a", "/srv/b", "/srv/c", "/srv/d">>
InputIdles == <<Number(0, 0), U32Max, Number(0, 300), Number(1, 0)>>

InputConfig(i) == Config(InputUrls[i], InputFolders[i], InputIdles[i])

InputConfigs == {InputConfig(i) : i \in 1..NumConfigs}

(* ------------------------- JSON text (serde_json) ---------------------- *)
(* A JSON text is modelled by its tokens: whether it is syntactically one  *)
(* JSON object, and the object's members in textual order.                 *)

StrMember(k, s) == [key |-> k, type |-> "string", str |-> s, num |-> Number(0, 0)]
NumMember(k, n) == [key |-> k, type |-> "number", str |-> "", num |-> n]

JsonText(ms) == [wellformed |-> TRUE, members |-> ms]

\* text that is not a JSON object (empty or cut-off file, arbitrary bytes)
Garbage == [wellformed |-> FALSE, members |-> <<>>]

\* serde_json::to_string_pretty(&Config): the derived Serialize writes the
\* fields in declaration order
to_string_pretty(c) ==
    JsonText(<< StrMember("home_assistant_url", c.home_assistant_url),
                StrMember("photos_folder", c.photos_folder),
                NumMember("idle_timeout_seconds", c.idle_timeout_seconds) >>)

MembersWithKey(t, k) == {i \in 1..Len(t.members) : t.members[i].key = k}

\* the one member with key k (only used when there is exactly one)
MemberOf(t, k) == t.members[CHOOSE i \in MembersWithKey(t, k) : TRUE]

FieldOk(t, k, ty) ==
    /\ Cardinality(MembersWithKey(t, k)) = 1          \* missing / duplicate field
    /\ MemberOf(t, k).type = ty                       \* invalid type
    /\ ty = "number" => IsU32(MemberOf(t, k).num)     \* out of range for u32

\* serde_json::from_str::<Config>: the derived Deserialize accepts the
\* members in any order, ignores unknown keys, and fails on a syntax error,
\* a missing or duplicate field, a value of the wrong type or out of u32.
from_str(t) ==
    IF /\ t.wellformed
       /\ FieldOk(t, "home_assistant_url", "string")
       /\ FieldOk(t, "photos_folder", "string")
       /\ FieldOk(t, "idle_timeout_seconds", "number")
    THEN [ok |-> TRUE,
          cfg |-> Config(MemberOf(t, "home_assistant_url").str,
                         MemberOf(t, "photos_folder").str,
                         MemberOf(t, "idle_timeout_seconds").num)]
    ELSE [ok |-> FALSE, cfg |-> Blank]

(* ------------------------------ config.json ---------------------------- *)

NoFile == [exists |-> FALSE, text |-> Garbage]
File(t) == [exists |-> TRUE, text |-> t]

\* a well-formed file written by hand: other member order, an unknown key
HandWritten ==
    JsonText(<< NumMember("idle_timeout_seconds", Number(0, 120)),
                StrMember("comment", "kitchen tablet"),
                StrMember("photos_folder", "./photos"),
                StrMember("home_assistant_url", "http://ha-0:8123") >>)

\* JSON, but idle_timeout_seconds does not fit u32
OutOfRange ==
    JsonText(<< StrMember("home_assistant_url", "http://ha-1:8123"),
                StrMember("photos_folder", "/srv/a"),
                NumMember("idle_timeout_seconds", Number(65536, 0)) >>)

\* JSON, but photos_folder is missing
MissingField ==
    JsonText(<< StrMember("home_assistant_url", "http://ha-1:8123"),
                NumMember("idle_timeout_seconds", Number(0, 60)) >>)

\* what config.json may hold when the process is first started
InitialFiles == {NoFile, File(HandWritten), File(Garbage), File(OutOfRange)}

\* bodies of POST /api/config
RequestBodies == {to_string_pretty(c) : c \in InputConfigs} \cup {MissingField, OutOfRange}

(* ------------------------- file names and paths ------------------------ *)
(* A file name is a sequence of characters (one-character strings).        *)

UpperChars == <<"A","B","C","D","E","F","G","H","I","J","K","L","M",
                "N","O","P","Q","R","S","T","U","V","W","X","Y","Z">>
LowerChars == <<"a","b","c","d","e","f","g","h","i","j","k","l","m",
                "n","o","p","q","r","s","t","u","v","w","x","y","z">>

\* char::to_lowercase on one character
LowerChar(ch) ==
    IF \E i \in 1..Len(UpperChars) : UpperChars[i] = ch
    THEN LowerChars[CHOOSE i \in 1..Len(UpperChars) : UpperChars[i] = ch]
    ELSE ch

\* str::to_lowercase
to_lowercase(s) == [i \in 1..Len(s) |-> LowerChar(s[i])]

DotPositions(n) == {i \in 1..Len(n) : n[i] = "."}

LastDot(n) == CHOOSE i \in DotPositions(n) : \A j \in DotPositions(n) : j <= i

\* Path::extension on a path whose file name is n: the part after the last
\* dot; None when there is no dot, when the only dot is the first character,
\* and for ".."
HasExtension(n) == n # <<".", ".">> /\ DotPositions(n) # {} /\ LastDot(n) > 1

extension(n) == SubSeq(n, LastDot(n) + 1, Len(n))

\* matches!(ext, "jpg" | "jpeg" | "png" | "gif" | "webp")
ImageExtensions ==
    { <<"j","p","g">>, <<"j","p","e","g">>, <<"p","n","g">>,
      <<"g","i","f">>, <<"w","e","b","p">> }

PhotosRoute == <<"/","p","h","o","t","o","s","/">>

\* format!("/photos/{}", filename)
PhotoUrl(n) == PhotosRoute \o n

(* ------------------------------ directories ---------------------------- *)
(* A directory entry has its own name and a kind.  For a symbolic link,    *)
(* target is the file name of the path the link resolves to; a broken link *)
(* resolves to nothing.                                                    *)

RegularFile(n) == [name |-> n, kind |-> "file", target |-> n]
SubDirectory(n) == [name |-> n, kind |-> "dir", target |-> n]
SymLink(n, t) == [name |-> n, kind |-> "symlink", target |-> t]
BrokenLink(n) == [name |-> n, kind |-> "broken", target |-> <<>>]

NoDir == [exists |-> FALSE, entries |-> <<>>]
Dir(es) == [exists |-> TRUE, entries |-> es]

\* entry.path().canonicalize(): Err for a link that resolves to nothing
canonicalize_ok(e) == e.kind # "broken"

\* file_name() of the canonical path of the entry
canonical_file_name(e) == IF e.kind = "symlink" THEN e.target ELSE e.name

\* body of the for loop of get_photos for one entry: the references pushed
ScanEntry(e) ==
    IF /\ canonicalize_ok(e)
       /\ HasExtension(canonical_file_name(e))
       /\ to_lowercase(extension(canonical_file_name(e))) \in ImageExtensions
    THEN << PhotoUrl(canonical_file_name(e)) >>
    ELSE << >>

\* the for loop over read_dir's entries, in enumeration order
RECURSIVE ScanEntries(_)
ScanEntries(es) ==
    IF es = << >> THEN << >>
    ELSE ScanEntry(Head(es)) \o ScanEntries(Tail(es))

\* if let Ok(entries) = read_dir(folder) { ... }: nothing is pushed when the
\* directory cannot be opened
ScanFolder(d) == IF d.exists THEN ScanEntries(d.entries) ELSE << >>

Folders == {DefaultConfig.photos_folder} \cup
           {InputFolders[i] : i \in 1..Len(InputFolders)}

\* a photo directory: the example of the specification (a.jpg, b.txt,
\* C.PNG); names without extension, a hidden file, mixed case, two dots, an
\* empty extension, a directory; symbolic links to a non-image, to an image
\* and to nothing
PhotoDir ==
    Dir(<< RegularFile(<<"a",".","j","p","g">>),
           RegularFile(<<"b",".","t","x","t">>),
           RegularFile(<<"C",".","P","N","G">>),
           RegularFile(<<"R","E","A","D","M","E">>),
           RegularFile(<<".","j","p","g">>),
           RegularFile(<<"x",".","J","P","e","G">>),
           RegularFile(<<"y",".","t","a","r",".","g","i","f">>),
           RegularFile(<<"z",".">>),
           SubDirectory(<<"v",".","g","i","f">>),
           SymLink(<<"l",".","j","p","g">>, <<"n",".","t","x","t">>),
           SymLink(<<"s",".","t","x","t">>, <<"r",".","p","n","g">>),
           BrokenLink(<<"d",".","p","n","g">>),
           RegularFile(<<"w",".","w","e","b","p">>) >>)

\* the directories when the process is first started: the default
\* directory and "/srv/b" do not exist yet
InitialDirs ==
    [f \in Folders |-> CASE f = "/srv/a" -> PhotoDir
                         [] f = "./photos" -> NoDir
                         [] f = "/srv/b" -> NoDir
                         [] OTHER -> Dir(<< >>)]

\* the paths under which the process may create a directory: the working
\* directory is writable, /srv is not
Creatable == {"./photos"}

\* the values a directory takes: the initial ones and a directory that
\* create_dir_all has just made
DirStates == {InitialDirs[f] : f \in Folders} \cup {Dir(<< >>)}

\* what the loop of get_photos pushes for each of these directories
Listing == [d \in DirStates |-> ScanFolder(d)]

(* -------------------------------- state -------------------------------- *)

VARIABLES
    phase,        \* "down" (not started), "serving", "crashed" (main panicked)
    config,       \* AppState.config: the Config inside the Mutex
    boot_config,  \* main's local `config`, moved into the HttpServer closure
    holder,       \* the request that holds the Mutex, 0 when it is free
    poisoned,     \* the Mutex's poison flag
    pc,           \* per request slot: the statement the handler is at
    req,          \* per request slot: new_config.into_inner()
    snap,         \* per request slot: get_photos' local photos_folder
    resp,         \* per request slot: the response built so far
    handler,      \* per request slot: the handler that serves the request
    write_result, \* per request slot: the Result of std::fs::write
    disk,         \* config.json
    fs,           \* the directories, by path
    durable,      \* history: the value of the last set that produced its
                  \*   response, while no later set has taken the lock
    fresh,        \* history: no set was submitted to this process yet
    loaded,       \* history: what load-or-default found at the last start
    last_locked   \* history: the value submitted by the set of this process
                  \*   that acquired the Mutex last

vars == <<phase, config, boot_config, holder, poisoned, pc, req, snap, resp,
          handler, write_result, disk, fs, durable, fresh, loaded,
          last_locked>>

NoResp == [status |-> "none", cfg |-> Blank, photos |-> << >>]
JsonConfig(c) == [status |-> "ok", cfg |-> c, photos |-> << >>]
JsonPhotos(l) == [status |-> "ok", cfg |-> Blank, photos |-> l]
BadRequest == [status |-> "bad_request", cfg |-> Blank, photos |-> << >>]
\* the handler panicked: the connection is closed without a response
Panicked(why) == [status |-> why, cfg |-> Blank, photos |-> << >>]

None == [some |-> FALSE, cfg |-> Blank]
Some(c) == [some |-> TRUE, cfg |-> c]

Init ==
    /\ phase = "down"
    /\ config = Blank
    /\ boot_config = Blank
    /\ holder = 0
    /\ poisoned = FALSE
    /\ pc = [p \in Procs |-> "idle"]
    /\ req = [p \in Procs |-> Blank]
    /\ snap = [p \in Procs |-> ""]
    /\ resp = [p \in Procs |-> NoResp]
    /\ handler = [p \in Procs |-> "none"]
    /\ write_result = [p \in Procs |-> "none"]
    /\ disk \in InitialFiles
    /\ fs = InitialDirs
    /\ durable = None
    /\ fresh = TRUE
    /\ loaded = "none"
    /\ last_locked = None

(* ------------------------------- main ---------------------------------- *)

\* std::fs::create_dir_all(&folder).ok(): creates a missing directory; a
\* failure is ignored
create_dir_all(f) ==
    IF f \in Creatable /\ ~fs[f].exists THEN [fs EXCEPT ![f] = Dir(<< >>)] ELSE fs

\* a start that ignores config.json and always takes the defaults
LoadDefaultsOnly == [ok |-> TRUE, cfg |-> DefaultConfig]

\* let config = if exists { from_str(read_to_string().unwrap()).unwrap() }
\*              else { defaults }
LoadOrDefault ==
    IF disk.exists
    THEN from_str(disk.text)
    ELSE [ok |-> TRUE, cfg |-> DefaultConfig]

\* main up to HttpServer::run: load-or-default, create the photo directory,
\* build the AppState.  A failed unwrap panics main: the process exits.
Boot ==
    /\ phase = "down"
    /\ loaded' = IF ~disk.exists THEN "missing"
                 ELSE IF from_str(disk.text).ok THEN "parsed" ELSE "corrupt"
    /\ IF LoadOrDefault.ok
       THEN /\ phase' = "serving"
            /\ config' = LoadOrDefault.cfg
            /\ boot_config' = LoadOrDefault.cfg
            /\ fs' = create_dir_all(LoadOrDefault.cfg.photos_folder)
       ELSE /\ phase' = "crashed"
            /\ UNCHANGED <<config, boot_config, fs>>
    /\ UNCHANGED <<holder, poisoned, pc, req, snap, resp, disk, durable,
                   fresh,
                   handler, write_result,
                   last_locked>>

\* the process is stopped: all of its memory is gone, the files stay
Stop ==
    /\ phase = "serving"
    /\ phase' = "down"
    /\ config' = Blank
    /\ boot_config' = Blank
    /\ holder' = 0
    /\ poisoned' = FALSE
    /\ pc' = [p \in Procs |-> "idle"]
    /\ req' = [p \in Procs |-> Blank]
    /\ snap' = [p \in Procs |-> ""]
    /\ resp' = [p \in Procs |-> NoResp]
    /\ handler' = [p \in Procs |-> "none"]
    /\ write_result' = [p \in Procs |-> "none"]
    /\ fresh' = TRUE
    /\ last_locked' = None
    /\ UNCHANGED <<disk, fs, durable, loaded>>

(* ------------------------------ the Mutex ------------------------------ *)

\* a lock() that does not wait for the holder to release the Mutex
LockUnwrapNoWait(p, next) ==
    /\ IF poisoned
       THEN /\ pc' = [pc EXCEPT ![p] = "aborted"]
            /\ resp' = [resp EXCEPT ![p] = Panicked("panic_poisoned")]
            /\ req' = [req EXCEPT ![p] = Blank]
            /\ UNCHANGED holder
       ELSE /\ pc' = [pc EXCEPT ![p] = next]
            /\ holder' = p
            /\ UNCHANGED <<resp, req>>

\* data.config.lock().unwrap() by request p, which then is at `next`:
\* blocks while the Mutex is held; on a poisoned Mutex lock() returns Err,
\* unwrap() panics, the guard inside the Err and the handler's arguments
\* are dropped
LockUnwrap(p, next) ==
    /\ holder = 0
    /\ IF poisoned
       THEN /\ pc' = [pc EXCEPT ![p] = "aborted"]
            /\ resp' = [resp EXCEPT ![p] = Panicked("panic_poisoned")]
            /\ req' = [req EXCEPT ![p] = Blank]
            /\ UNCHANGED holder
       ELSE /\ pc' = [pc EXCEPT ![p] = next]
            /\ holder' = p
            /\ UNCHANGED <<resp, req>>

(* --------------------------- GET /api/config --------------------------- *)

GetStart(p) ==
    /\ phase = "serving" /\ pc[p] = "idle"
    /\ pc' = [pc EXCEPT ![p] = "get_wait"]
    /\ UNCHANGED <<phase, config, boot_config, holder, poisoned, req, snap,
                   resp, disk, fs, durable, fresh, loaded,
                   write_result,
                   last_locked>>
    /\ handler' = [handler EXCEPT ![p] = "get_config"]

\* a get_config that reads the Config without waiting for the Mutex
GetLockNoWait(p) ==
    /\ pc[p] = "get_wait"
    /\ pc' = [pc EXCEPT ![p] = "get_locked"]
    /\ UNCHANGED <<phase, config, boot_config, holder, poisoned, req, snap,
                   resp, disk, fs, durable, fresh, loaded,
                   handler, write_result,
                   last_locked>>

\* let config = data.config.lock().unwrap();
GetLock(p) ==
    /\ pc[p] = "get_wait"
    /\ LockUnwrap(p, "get_locked")
    /\ UNCHANGED <<phase, config, boot_config, poisoned, snap, disk, fs,
                   durable, fresh, loaded,
                   handler, write_result,
                   last_locked>>

\* a get_config that answers with the Config main loaded at start
GetReadStartup(p) ==
    /\ pc[p] = "get_locked"
    /\ resp' = [resp EXCEPT ![p] = JsonConfig(boot_config)]
    /\ pc' = [pc EXCEPT ![p] = "get_read"]
    /\ UNCHANGED <<phase, config, boot_config, holder, poisoned, req, snap,
                   disk, fs, durable, fresh, loaded,
                   handler, write_result,
                   last_locked>>

\* HttpResponse::Ok().json(config.clone())
GetRead(p) ==
    /\ pc[p] = "get_locked"
    /\ resp' = [resp EXCEPT ![p] = JsonConfig(config)]
    /\ pc' = [pc EXCEPT ![p] = "get_read"]
    /\ UNCHANGED <<phase, config, boot_config, holder, poisoned, req, snap,
                   disk, fs, durable, fresh, loaded,
                   handler, write_result,
                   last_locked>>

\* the handler returns: the guard is dropped, the response is sent
GetReturn(p) ==
    /\ pc[p] = "get_read"
    /\ holder' = 0
    /\ pc' = [pc EXCEPT ![p] = "idle"]
    /\ resp' = [resp EXCEPT ![p] = NoResp]
    /\ UNCHANGED <<phase, config, boot_config, poisoned, req, snap, disk, fs,
                   durable, fresh, loaded,
                   write_result,
                   last_locked>>
    /\ handler' = [handler EXCEPT ![p] = "none"]

(* --------------------------- POST /api/config -------------------------- *)

\* the request arrives; the web::Json<Config> extractor parses the body and
\* answers 400 without calling the handler when it is not a Config
SetStart(p, body) ==
    /\ phase = "serving" /\ pc[p] = "idle"
    /\ IF from_str(body).ok
       THEN /\ pc' = [pc EXCEPT ![p] = "set_wait"]
            /\ req' = [req EXCEPT ![p] = from_str(body).cfg]
            /\ fresh' = FALSE
            /\ UNCHANGED resp
       ELSE /\ pc' = [pc EXCEPT ![p] = "rejected"]
            /\ resp' = [resp EXCEPT ![p] = BadRequest]
            /\ UNCHANGED <<req, fresh>>
    /\ UNCHANGED <<phase, config, boot_config, holder, poisoned, snap, disk,
                   fs, durable, loaded,
                   write_result,
                   last_locked>>
    /\ handler' = [handler EXCEPT ![p] = "update_config"]

\* an update_config whose lock() does not wait for the Mutex
SetLockNoWait(p) ==
    /\ pc[p] = "set_wait"
    /\ LockUnwrapNoWait(p, "set_locked")
    /\ durable' = IF poisoned THEN durable ELSE None
    /\ last_locked' = IF poisoned THEN last_locked ELSE Some(req[p])
    /\ UNCHANGED <<phase, config, boot_config, poisoned, snap, disk, fs,
                   fresh, loaded, handler, write_result>>

\* let mut config = data.config.lock().unwrap();
SetLock(p) ==
    /\ pc[p] = "set_wait"
    /\ LockUnwrap(p, "set_locked")
    /\ durable' = IF poisoned THEN durable ELSE None
    /\ last_locked' = IF poisoned THEN last_locked ELSE Some(req[p])
    /\ UNCHANGED <<phase, config, boot_config, poisoned, snap, disk, fs,
                   fresh, loaded,
                   handler, write_result>>

\* *config = new_config.into_inner(): one store per field of the struct,
\* in declaration order
SetStoreUrl(p) ==
    /\ pc[p] = "set_locked"
    /\ config' = [config EXCEPT !.home_assistant_url = req[p].home_assistant_url]
    /\ pc' = [pc EXCEPT ![p] = "set_store_folder"]
    /\ UNCHANGED <<phase, boot_config, holder, poisoned, req, snap, resp, disk,
                   fs, durable, fresh, loaded,
                   handler, write_result,
                   last_locked>>

\* an update_config that patches: it keeps the photos_folder it finds
SetStoreFolderSkip(p) ==
    /\ pc[p] = "set_store_folder"
    /\ pc' = [pc EXCEPT ![p] = "set_store_idle"]
    /\ UNCHANGED <<phase, config, boot_config, holder, poisoned, req, snap,
                   resp, disk, fs, durable, fresh, loaded, handler,
                   write_result, last_locked>>

SetStoreFolder(p) ==
    /\ pc[p] = "set_store_folder"
    /\ config' = [config EXCEPT !.photos_folder = req[p].photos_folder]
    /\ pc' = [pc EXCEPT ![p] = "set_store_idle"]
    /\ UNCHANGED <<phase, boot_config, holder, poisoned, req, snap, resp, disk,
                   fs, durable, fresh, loaded,
                   handler, write_result,
                   last_locked>>

\* an update_config that drops the guard after the replace, before the write
SetStoreIdleUnlock(p) ==
    /\ pc[p] = "set_store_idle"
    /\ config' = [config EXCEPT !.idle_timeout_seconds = req[p].idle_timeout_seconds]
    /\ pc' = [pc EXCEPT ![p] = "set_assigned"]
    /\ holder' = 0
    /\ UNCHANGED <<phase, boot_config, poisoned, req, snap, resp, disk,
                   fs, durable, fresh, loaded, handler, write_result,
                   last_locked>>

SetStoreIdle(p) ==
    /\ pc[p] = "set_store_idle"
    /\ config' = [config EXCEPT !.idle_timeout_seconds = req[p].idle_timeout_seconds]
    /\ pc' = [pc EXCEPT ![p] = "set_assigned"]
    /\ UNCHANGED <<phase, boot_config, holder, poisoned, req, snap, resp, disk,
                   fs, durable, fresh, loaded,
                   handler, write_result,
                   last_locked>>

\* what std::fs::write("config.json", text) can do: write the whole text;
\* fail before touching the file (permissions); fail after truncating it
\* (disk full)
WriteOutcomes == {"written", "denied", "cut"}

FileAfterWrite(outcome, text) ==
    CASE outcome = "written" -> File(text)
      [] outcome = "denied"  -> disk
      [] outcome = "cut"     -> File(Garbage)

\* an update_config that ignores the Result of the write (best effort)
SetPersistBestEffort(p) ==
    /\ pc[p] = "set_assigned"
    /\ \E outcome \in WriteOutcomes :
         /\ disk' = FileAfterWrite(outcome, to_string_pretty(config))
         /\ write_result' = [write_result EXCEPT ![p] =
                                IF outcome = "written" THEN "ok" ELSE "err"]
    /\ pc' = [pc EXCEPT ![p] = "set_persisted"]
    /\ UNCHANGED <<phase, config, boot_config, holder, poisoned, req, snap,
                   resp, fs, durable, fresh, loaded, handler,
                   last_locked>>

\* let config_json = to_string_pretty(&*config).unwrap();
\* std::fs::write("config.json", config_json).unwrap();
\* On Err the unwrap panics: the guard is dropped while unwinding, which
\* poisons the Mutex, and the request ends without a response.
SetPersist(p) ==
    /\ pc[p] = "set_assigned"
    /\ \E outcome \in WriteOutcomes :
         /\ disk' = FileAfterWrite(outcome, to_string_pretty(config))
         /\ write_result' = [write_result EXCEPT ![p] =
                                IF outcome = "written" THEN "ok" ELSE "err"]
         /\ IF outcome = "written"
            THEN /\ pc' = [pc EXCEPT ![p] = "set_persisted"]
                 /\ UNCHANGED <<holder, poisoned, resp>>
            ELSE /\ pc' = [pc EXCEPT ![p] = "aborted"]
                 /\ resp' = [resp EXCEPT ![p] = Panicked("panic_write")]
                 /\ holder' = 0
                 /\ poisoned' = TRUE
    /\ UNCHANGED <<phase, config, boot_config, req, snap, fs, durable,
                   fresh, loaded,
                   handler,
                   last_locked>>

\* Ok(HttpResponse::Ok().json(&*config))
SetRespond(p) ==
    /\ pc[p] = "set_persisted"
    /\ resp' = [resp EXCEPT ![p] = JsonConfig(config)]
    /\ pc' = [pc EXCEPT ![p] = "set_responded"]
    /\ durable' = Some(req[p])
    /\ UNCHANGED <<phase, config, boot_config, holder, poisoned, req, snap,
                   disk, fs, fresh, loaded,
                   handler, write_result,
                   last_locked>>

\* an update_config that returns without dropping its guard
SetReturnKeepGuard(p) ==
    /\ pc[p] = "set_responded"
    /\ pc' = [pc EXCEPT ![p] = "idle"]
    /\ req' = [req EXCEPT ![p] = Blank]
    /\ resp' = [resp EXCEPT ![p] = NoResp]
    /\ handler' = [handler EXCEPT ![p] = "none"]
    /\ write_result' = [write_result EXCEPT ![p] = "none"]
    /\ UNCHANGED <<phase, config, boot_config, holder, poisoned, snap, disk,
                   fs, durable, fresh, loaded, last_locked>>

\* the handler returns: the guard is dropped, the response is sent
SetReturn(p) ==
    /\ pc[p] = "set_responded"
    /\ holder' = 0
    /\ pc' = [pc EXCEPT ![p] = "idle"]
    /\ req' = [req EXCEPT ![p] = Blank]
    /\ resp' = [resp EXCEPT ![p] = NoResp]
    /\ UNCHANGED <<phase, config, boot_config, poisoned, snap, disk, fs,
                   durable, fresh, loaded,
                   last_locked>>
    /\ handler' = [handler EXCEPT ![p] = "none"]
    /\ write_result' = [write_result EXCEPT ![p] = "none"]

(* --------------------------- GET /api/photos --------------------------- *)

PhotosStart(p) ==
    /\ phase = "serving" /\ pc[p] = "idle"
    /\ pc' = [pc EXCEPT ![p] = "photos_wait"]
    /\ UNCHANGED <<phase, config, boot_config, holder, poisoned, req, snap,
                   resp, disk, fs, durable, fresh, loaded,
                   write_result,
                   last_locked>>
    /\ handler' = [handler EXCEPT ![p] = "get_photos"]

\* let config = data.config.lock().unwrap();
PhotosLock(p) ==
    /\ pc[p] = "photos_wait"
    /\ LockUnwrap(p, "photos_locked")
    /\ UNCHANGED <<phase, config, boot_config, poisoned, snap, disk, fs,
                   durable, fresh, loaded,
                   handler, write_result,
                   last_locked>>

\* let photos_folder = config.photos_folder.clone();
PhotosSnapshot(p) ==
    /\ pc[p] = "photos_locked"
    /\ snap' = [snap EXCEPT ![p] = config.photos_folder]
    /\ pc' = [pc EXCEPT ![p] = "photos_copied"]
    /\ UNCHANGED <<phase, config, boot_config, holder, poisoned, req, resp,
                   disk, fs, durable, fresh, loaded,
                   handler, write_result,
                   last_locked>>

\* drop(config);
PhotosDrop(p) ==
    /\ pc[p] = "photos_copied"
    /\ holder' = 0
    /\ pc' = [pc EXCEPT ![p] = "photos_unlocked"]
    /\ UNCHANGED <<phase, config, boot_config, poisoned, req, snap, resp, disk,
                   fs, durable, fresh, loaded,
                   handler, write_result,
                   last_locked>>

\* a listing that reads the folder from the shared Config when it scans
PhotosScanCurrent(p) ==
    /\ pc[p] = "photos_unlocked"
    /\ resp' = [resp EXCEPT ![p] = JsonPhotos(Listing[fs[config.photos_folder]])]
    /\ pc' = [pc EXCEPT ![p] = "photos_scanned"]
    /\ UNCHANGED <<phase, config, boot_config, holder, poisoned, req, snap,
                   disk, fs, durable, fresh, loaded,
                   handler, write_result,
                   last_locked>>

\* the scan of photos_folder into the Vec photos
PhotosScan(p) ==
    /\ pc[p] = "photos_unlocked"
    /\ resp' = [resp EXCEPT ![p] = JsonPhotos(Listing[fs[snap[p]]])]
    /\ pc' = [pc EXCEPT ![p] = "photos_scanned"]
    /\ UNCHANGED <<phase, config, boot_config, holder, poisoned, req, snap,
                   disk, fs, durable, fresh, loaded,
                   handler, write_result,
                   last_locked>>

\* Ok(HttpResponse::Ok().json(photos)): the response is sent
PhotosReturn(p) ==
    /\ pc[p] = "photos_scanned"
    /\ pc' = [pc EXCEPT ![p] = "idle"]
    /\ snap' = [snap EXCEPT ![p] = ""]
    /\ resp' = [resp EXCEPT ![p] = NoResp]
    /\ UNCHANGED <<phase, config, boot_config, holder, poisoned, req, disk, fs,
                   durable, fresh, loaded,
                   write_result,
                   last_locked>>
    /\ handler' = [handler EXCEPT ![p] = "none"]

(* ----------------------------------------------------------------------- *)

\* a request that was rejected or whose handler panicked is over
Close(p) ==
    /\ pc[p] \in {"rejected", "aborted"}
    /\ pc' = [pc EXCEPT ![p] = "idle"]
    /\ req' = [req EXCEPT ![p] = Blank]
    /\ resp' = [resp EXCEPT ![p] = NoResp]
    /\ UNCHANGED <<phase, config, boot_config, holder, poisoned, snap, disk,
                   fs, durable, fresh, loaded,
                   last_locked>>
    /\ handler' = [handler EXCEPT ![p] = "none"]
    /\ write_result' = [write_result EXCEPT ![p] = "none"]

Next ==
    \/ Boot
    \/ Stop
    \/ \E p \in Procs : GetStart(p)
    \/ \E p \in Procs : GetLock(p)
    \/ \E p \in Procs : GetRead(p)
    \/ \E p \in Procs : GetReturn(p)
    \/ \E p \in Procs : \E body \in RequestBodies : SetStart(p, body)
    \/ \E p \in Procs : SetLock(p)
    \/ \E p \in Procs : SetStoreUrl(p)
    \/ \E p \in Procs : SetStoreFolder(p)
    \/ \E p \in Procs : SetStoreIdle(p)
    \/ \E p \in Procs : SetPersist(p)
    \/ \E p \in Procs : SetRespond(p)
    \/ \E p \in Procs : SetReturn(p)
    \/ \E p \in Procs : PhotosStart(p)
    \/ \E p \in Procs : PhotosLock(p)
    \/ \E p \in Procs : PhotosSnapshot(p)
    \/ \E p \in Procs : PhotosDrop(p)
    \/ \E p \in Procs : PhotosScan(p)
    \/ \E p \in Procs : PhotosReturn(p)
    \/ \E p \in Procs : Close(p)

Spec == Init /\ [][Next]_vars

TypeOK ==
    /\ phase \in {"down", "serving", "crashed"}
    /\ holder \in Procs \cup {0}
    /\ poisoned \in BOOLEAN
    /\ \A p \in Procs : snap[p] \in Folders \cup {""}
    /\ \A f \in Folders : fs[f] \in DirStates

(* ------------------------------ properties ----------------------------- *)

\* the values a reader may see: the one loaded at start, or one of the
\* values clients submit
WholeValues == {boot_config} \cup InputConfigs

\* a set is between the first and the last store of line 29
Storing(p) == pc[p] \in {"set_store_folder", "set_store_idle"}

\* C1: a get that reads after a set(v) produced its response, with no other
\* set having taken the lock since, answers v in all three fields (and the
\* Mutex is not poisoned, so the get does read); set(v) itself answers v.
C1_SetThenGet ==
    /\ \A p \in Procs : pc[p] = "set_responded" => resp[p] = JsonConfig(req[p])
    /\ durable.some /\ phase = "serving" => ~poisoned
    /\ \A p \in Procs :
         pc[p] = "get_read" /\ durable.some => resp[p] = JsonConfig(durable.cfg)

\* C1 witness: a get has read the value of a completed set, a value other
\* than the one the process started with
C1_Witness ==
    \E p \in Procs :
        /\ pc[p] = "get_read" /\ durable.some /\ ~fresh
        /\ resp[p].cfg = durable.cfg
        /\ durable.cfg \in InputConfigs /\ durable.cfg # boot_config

\* C2: whenever no set is in the middle of its stores, the store holds the
\* value loaded at start or exactly one submitted value, never a mix of
\* fields of two values; every get observes such a whole value.
C2_NoMixedValue ==
    /\ phase = "serving" /\ (\A p \in Procs : ~Storing(p)) => config \in WholeValues
    /\ \A p \in Procs : pc[p] = "get_read" => resp[p].cfg \in WholeValues

\* C2 witness: two different values were submitted, a get has read one of
\* them while another set is in flight
C2_Witness ==
    \E p, q \in Procs :
        /\ p # q
        /\ pc[p] = "get_read" /\ resp[p].cfg \in InputConfigs
        /\ resp[p].cfg # boot_config
        /\ pc[q] = "set_wait" /\ req[q] # resp[p].cfg

\* C3: once set(v) has produced its response, and until a later set takes
\* the lock, config.json exists and parses back to v; in particular at the
\* moment the response is produced.
C3_FileParsesBack ==
    /\ durable.some => disk.exists /\ from_str(disk.text) = [ok |-> TRUE, cfg |-> durable.cfg]
    /\ \A p \in Procs : pc[p] = "set_responded" => durable = Some(req[p])

\* C3 witness: a set has produced its response and the file holds its value
C3_Witness ==
    \E p \in Procs :
        /\ pc[p] = "set_responded" /\ write_result[p] = "ok"
        /\ disk = File(to_string_pretty(req[p]))
        /\ from_str(disk.text).cfg = req[p]

\* C4 (as claimed): a start on a config.json that does not parse reaches
\* the serving state with the default Configuration.
C4_CorruptFileYieldsDefault ==
    loaded = "corrupt" /\ phase # "down" =>
        phase = "serving" /\ boot_config = DefaultConfig

\* C5 (as claimed): a set(v) whose write of config.json failed has replaced
\* the in-memory value by v and answers v.
C5_WriteFailureStillSucceeds ==
    \A p \in Procs :
        write_result[p] = "err" => config = req[p] /\ resp[p] = JsonConfig(req[p])

\* C6 (as claimed): no request fails because of an earlier request: the
\* only handler that may end without a response is the set whose own write
\* failed, and the lock stays acquirable.
C6_NoRequestFatal ==
    \A p \in Procs : pc[p] = "aborted" => write_result[p] = "err"

\* C7: a start with no config.json never fails and loads the documented
\* default: idle timeout 60 s, directory "./photos", endpoint
\* "http://homeassistant.local:8123".
C7_MissingFileYieldsDefault ==
    /\ loaded = "missing" => phase # "crashed"
    /\ loaded = "missing" /\ phase = "serving" =>
         /\ boot_config = Config("http://homeassistant.local:8123", "./photos", Number(0, 60))
         /\ fresh => config = boot_config

\* C7 witness: started without a file, a get has read the default
C7_Witness ==
    \E p \in Procs :
        /\ loaded = "missing" /\ ~disk.exists
        /\ pc[p] = "get_read" /\ resp[p].cfg.idle_timeout_seconds = Number(0, 60)

\* C8: after set(v) produced its response and the process was stopped and
\* started again (durable is known and the running process has not been
\* sent a set: it is a later process than the one that served set(v)),
\* the process serves, holds v, and every get answers v.
C8_SurvivesRestart ==
    durable.some /\ fresh /\ phase # "down" =>
        /\ phase = "serving"
        /\ config = durable.cfg
        /\ \A p \in Procs : pc[p] = "get_read" => resp[p] = JsonConfig(durable.cfg)

\* C8 witness: a get of the restarted process has read the value set
\* before the restart, which is not the default
C8_Witness ==
    \E p \in Procs :
        /\ durable.some /\ fresh /\ loaded = "parsed"
        /\ pc[p] = "get_read" /\ resp[p].cfg = durable.cfg
        /\ durable.cfg \in InputConfigs

\* the entry's own name has an image extension
OwnNameIsImage(e) ==
    HasExtension(e.name) /\ to_lowercase(extension(e.name)) \in ImageExtensions

Occurrences(l, x) == Cardinality({i \in 1..Len(l) : l[i] = x})

\* C9 (as claimed): the listing of an existing directory holds exactly one
\* "/photos/<name>" for every file of the directory whose extension is an
\* image extension (case-insensitively), none for a file with another or
\* no extension, and nothing else.
C9_ListsExactlyImageFiles ==
    \A p \in Procs :
        pc[p] = "photos_scanned" /\ fs[snap[p]].exists =>
            LET es == fs[snap[p]].entries
                l == resp[p].photos
            IN /\ \A i \in 1..Len(es) :
                    es[i].kind # "dir" =>
                        Occurrences(l, PhotoUrl(es[i].name)) =
                            IF OwnNameIsImage(es[i]) THEN 1 ELSE 0
               /\ \A j \in 1..Len(l) :
                    \E i \in 1..Len(es) : l[j] = PhotoUrl(es[i].name)

\* C10 (as claimed): every photo listing request gets a successful response
\* with a list, the empty list when the directory cannot be opened.
C10_ListingNeverFails ==
    \A p \in Procs :
        handler[p] = "get_photos" =>
            /\ pc[p] # "aborted"
            /\ pc[p] = "photos_scanned" =>
                 /\ resp[p].status = "ok"
                 /\ ~fs[snap[p]].exists => resp[p].photos = << >>

\* the statements at which a handler owns the MutexGuard
GuardedStatements ==
    {"get_locked", "get_read",
     "set_locked", "set_store_folder", "set_store_idle", "set_assigned",
     "set_persisted", "set_responded",
     "photos_locked", "photos_copied"}

InCritical(p) == pc[p] \in GuardedStatements

\* C11: at most one request is at a statement that owns the guard, and it
\* is the holder of the Mutex: no get reads between the stores of a set,
\* no two sets overlap.
C11_MutualExclusion ==
    /\ \A p, q \in Procs : InCritical(p) /\ InCritical(q) => p = q
    /\ \A p \in Procs : InCritical(p) <=> holder = p

\* C11 witness: a set is between its stores while a get waits for the lock
C11_Witness ==
    \E p, q \in Procs :
        /\ Storing(p) /\ holder = p
        /\ pc[q] = "get_wait"

\* C12: from the replace until the response a set is the holder of the
\* Mutex; and whenever the Mutex is free and not poisoned (no write failed)
\* after a set has completed, config.json parses to the in-memory value.
C12_LockHeldAcrossWrite ==
    /\ \A p \in Procs :
         pc[p] \in {"set_locked", "set_store_folder", "set_store_idle",
                    "set_assigned", "set_persisted", "set_responded"}
            => holder = p
    /\ phase = "serving" /\ holder = 0 /\ ~poisoned /\ durable.some =>
         disk.exists /\ from_str(disk.text) = [ok |-> TRUE, cfg |-> config]

\* C12 witness: a set of this process has completed, the Mutex is free and
\* the file holds the in-memory value
C12_Witness ==
    /\ phase = "serving" /\ holder = 0 /\ ~poisoned /\ durable.some /\ ~fresh
    /\ config \in InputConfigs
    /\ disk = File(to_string_pretty(config))

\* C13: whenever the Mutex is free and not poisoned (every set that took
\* it has completed, no write failed), the in-memory Configuration and
\* config.json both hold the value of the set that acquired the Mutex last.
C13_LastLockHolderWins ==
    phase = "serving" /\ holder = 0 /\ ~poisoned /\ last_locked.some =>
        /\ config = last_locked.cfg
        /\ disk.exists
        /\ from_str(disk.text) = [ok |-> TRUE, cfg |-> last_locked.cfg]

\* C13 witness: a set has completed while a set with another value waits
\* for the Mutex; memory and file hold the value of the one that acquired
\* the Mutex last, not the value the process started with
C13_Witness ==
    \E p, q \in Procs :
        /\ p # q /\ holder = 0 /\ ~poisoned
        /\ pc[p] = "idle" /\ pc[q] = "set_wait"
        /\ last_locked.some /\ last_locked.cfg # req[q]
        /\ config = last_locked.cfg
        /\ disk = File(to_string_pretty(last_locked.cfg))
        /\ config # boot_config

\* request p takes a step of handler h
StepOf(p, h) == pc'[p] # pc[p] /\ (handler[p] = h \/ handler'[p] = h)

\* C14: while the process serves, a step of a get or of a photo listing
\* leaves the in-memory Configuration and config.json as they are, every
\* change of either is a step of a set, and when a set has finished line 29
\* all three fields are those of the submitted value.
C14_OnlySetChangesConfig ==
    [][ /\ \A p \in Procs :
             /\ phase' = "serving"
             /\ StepOf(p, "get_config") \/ StepOf(p, "get_photos")
             => config' = config /\ disk' = disk
        /\ phase = "serving" /\ phase' = "serving"
             /\ (config' # config \/ disk' # disk)
             => \E p \in Procs : StepOf(p, "update_config") /\ holder = p
        /\ \A p \in Procs : pc'[p] = "set_assigned" => config' = req'[p]
      ]_vars

\* C14 witness: a set has replaced a value that differs from the submitted
\* one in all three fields, while a photo listing has scanned
C14_Witness ==
    \E p, q \in Procs :
        /\ pc[p] = "set_assigned" /\ config = req[p]
        /\ boot_config.home_assistant_url # config.home_assistant_url
        /\ boot_config.photos_folder # config.photos_folder
        /\ boot_config.idle_timeout_seconds # config.idle_timeout_seconds
        /\ pc[q] = "photos_scanned"

\* C16: a photo listing holds the Mutex only while it copies photos_folder:
\* the copy is the folder of the Config at that moment, the guard is gone
\* before the scan, and the listing is that of the directory the copy names,
\* whatever a set has stored since.
C16_ScanUsesSnapshot ==
    /\ \A p \in Procs : pc[p] = "photos_copied" =>
           holder = p /\ snap[p] = config.photos_folder
    /\ \A p \in Procs : pc[p] \in {"photos_unlocked", "photos_scanned"} =>
           holder # p
    /\ \A p \in Procs : pc[p] = "photos_scanned" =>
           resp[p] = JsonPhotos(ScanFolder(fs[snap[p]]))

\* C16 witness: a listing has scanned the directory of its copy and found
\* photos there, while a set that took the Mutex after the copy has
\* completed and names another directory, with another listing
C16_Witness ==
    \E p \in Procs :
        /\ pc[p] = "photos_scanned" /\ resp[p].photos # << >>
        /\ holder = 0 /\ ~poisoned /\ durable.some
        /\ config = durable.cfg /\ config.photos_folder # snap[p]
        /\ ScanFolder(fs[config.photos_folder]) # resp[p].photos

\* fs::Files::new("/photos", &config.photos_folder): the directory behind
\* the route /photos, taken from main's local config when the server is built
ServedDir == boot_config.photos_folder

\* GET of the reference u is answered with a file: the served directory has
\* an entry of that name that opens as a file
Fetchable(u) ==
    /\ fs[ServedDir].exists
    /\ \E i \in 1..Len(fs[ServedDir].entries) :
          /\ PhotoUrl(fs[ServedDir].entries[i].name) = u
          /\ fs[ServedDir].entries[i].kind \in {"file", "symlink"}

\* C17 (as claimed): the directory served under /photos is the directory
\* that a listing scans, the photos_folder of the current Config, so the
\* reference a listing gives for a regular file can be fetched; also after
\* a set has changed photos_folder.
C17_ServedDirIsScannedDir ==
    /\ phase = "serving" /\ holder = 0 => ServedDir = config.photos_folder
    /\ \A p \in Procs : pc[p] = "photos_copied" => snap[p] = ServedDir
    /\ \A p \in Procs :
         pc[p] = "photos_scanned" /\ fs[snap[p]].exists =>
            \A i \in 1..Len(fs[snap[p]].entries) :
               LET e == fs[snap[p]].entries[i]
               IN e.kind = "file" /\ OwnNameIsImage(e) =>
                      Fetchable(PhotoUrl(e.name))

\* the name is one path component
BareName(n) == n # << >> /\ \A i \in 1..Len(n) : n[i] # "/"

\* C18 (as claimed): every reference of a listing is "/photos/" followed by
\* the bare name of an entry of the scanned directory whose own name passes
\* the extension filter, and a symbolic link that resolves is listed or not
\* by its own name, whatever the name of its target.
C18_ReferencesNameEntries ==
    \A p \in Procs :
        pc[p] = "photos_scanned" /\ fs[snap[p]].exists =>
            LET es == fs[snap[p]].entries
                l == resp[p].photos
            IN /\ \A j \in 1..Len(l) :
                    \E i \in 1..Len(es) :
                        /\ l[j] = PhotoUrl(es[i].name)
                        /\ BareName(es[i].name)
                        /\ OwnNameIsImage(es[i])
               /\ \A i \in 1..Len(es) :
                    es[i].kind = "symlink" =>
                        (OwnNameIsImage(es[i]) <=>
                            \E j \in 1..Len(l) : l[j] = PhotoUrl(es[i].name))

(* ------------------------------ liveness ------------------------------- *)

\* the steps of request p that need nothing but the worker thread to run
Run(p) ==
    \/ GetRead(p) \/ GetReturn(p)
    \/ SetStoreUrl(p) \/ SetStoreFolder(p) \/ SetStoreIdle(p)
    \/ SetPersist(p) \/ SetRespond(p) \/ SetReturn(p)
    \/ PhotosSnapshot(p) \/ PhotosDrop(p) \/ PhotosScan(p) \/ PhotosReturn(p)
    \/ Close(p)

\* the steps of request p that wait for the Mutex
Acquire(p) == GetLock(p) \/ SetLock(p) \/ PhotosLock(p)

\* Worker threads keep running (no handler awaits or sleeps), and the Mutex
\* is scheduled fairly: a request that finds it free again and again gets it.
Fairness == \A p \in Procs : WF_vars(Run(p)) /\ SF_vars(Acquire(p))

FairSpec == Spec /\ Fairness

\* C15: under fair scheduling every request that has started comes to its
\* end, and every request that holds the Mutex releases it.
C15_NoRequestBlocksForever ==
    \A p \in Procs :
        /\ (pc[p] # "idle") ~> (pc[p] = "idle")
        /\ (holder = p) ~> (holder # p)

\* C15 witness: a get and a set are in flight together, the get waits for
\* the Mutex that the set holds across its write
C15_Witness ==
    \E p, q \in Procs :
        /\ pc[p] = "get_wait"
        /\ pc[q] = "set_assigned" /\ holder = q

====
